---- MODULE Spec2Model ----
(***************************************************************************)
(* Model of the tax-lot / wash-sale engine of robinhood_tax_calc:          *)
(* modules/tax_calc.py, calculate_stock_gains_and_losses and get_key.      *)
(*                                                                         *)
(* Conventions.                                                            *)
(*  - A date is a day number; date arithmetic (timedelta, .days) is integer *)
(*    arithmetic on day numbers.                                           *)
(*  - Python floats that hold money are exact rationals [n, d] in lowest   *)
(*    terms with d > 0 (rounding of binary floating point is not          *)
(*    modelled). Quantities are integers.                                  *)
(*  - A string that the code inspects (description, quantity text) is a    *)
(*    sequence of tokens, so that startswith / strip / float() are         *)
(*    computed, not assumed.                                               *)
(*  - A Python exception that leaves the function (ZeroDivisionError)      *)
(*    moves pc to "crashed"; nothing is returned.                          *)
(*  - trace records, per processed transaction, the values its branch      *)
(*    computed (the ones it prints, and its locals), with the key's queue  *)
(*    and pending list before and after, and the whole state after; no     *)
(*    branch reads it.                                                     *)
(*  - main.py calls the function once per tax year on the same database;   *)
(*    earlier keeps, per completed call, its trace and what it ended with. *)
(***************************************************************************)
EXTENDS Integers, Sequences, FiniteSets, TLC

VARIABLES
    transactions,   \* the list built from cursor.fetchall(), quantities parsed
    tax_year,       \* the tax_year argument
    idx,            \* position of the main loop in transactions (1-based)
    pc,             \* "loop", "done" (returned) or "crashed" (exception)
    holdings,       \* defaultdict(deque): key -> queue of lots
    pending_wash_sales, \* defaultdict(list): key -> pending deferrals
    realized_gains, realized_losses, disallowed_losses,
    gross_sales, gross_cost_basis, long_term_gain, short_term_gain,
    gross_long_term_sales, gross_short_term_sales,
    gross_long_term_cost_basis, gross_short_term_cost_basis,
    total_gain_loss, \* the returned value, once pc = "done"
    trace,          \* per processed transaction, the values the handler computed
    earlier         \* the calls of this function the process completed before

accs == <<realized_gains, realized_losses, disallowed_losses,
          gross_sales, gross_cost_basis, long_term_gain, short_term_gain,
          gross_long_term_sales, gross_short_term_sales,
          gross_long_term_cost_basis, gross_short_term_cost_basis>>

vars == <<transactions, tax_year, idx, pc, holdings, pending_wash_sales,
          accs, total_gain_loss, trace, earlier>>

----------------------------------------------------------------------------
(* Bounds and program constants *)

\* longest ledger explored
MaxLen == 4

\* calls of the function by one process that are followed
MaxCalls == 2

\* timedelta(days=30)
WashWindow == 30

\* holding_period_days >= 365 is long term
LongTermDays == 365

----------------------------------------------------------------------------
(* Exact arithmetic standing for float arithmetic *)

Abs(x) == IF x < 0 THEN -x ELSE x

Min(a, b) == IF a <= b THEN a ELSE b

RECURSIVE GCD(_, _)
GCD(a, b) == IF b = 0 THEN a ELSE GCD(b, a % b)

\* n/d in lowest terms, d # 0
Rat(n, d) ==
    LET g == GCD(Abs(n), Abs(d))
        s == IF d < 0 THEN -1 ELSE 1
    IN  [n |-> s * (n \div g), d |-> Abs(d) \div g]

Zero == [n |-> 0, d |-> 1]
FromInt(i) == [n |-> i, d |-> 1]
RAdd(a, b) == Rat(a.n * b.d + b.n * a.d, a.d * b.d)
RSub(a, b) == Rat(a.n * b.d - b.n * a.d, a.d * b.d)
RNeg(a) == [n |-> -a.n, d |-> a.d]
RMulInt(a, i) == Rat(a.n * i, a.d)
RDivInt(a, i) == Rat(a.n, a.d * i)
\* a test that takes zero for negative
IsNegOrZero(a) == a.n <= 0

IsNeg(a) == a.n < 0

RECURSIVE SumQty(_)
SumQty(lots) == IF lots = <<>> THEN 0 ELSE Head(lots).quantity + SumQty(Tail(lots))

----------------------------------------------------------------------------
(* Transaction, its predicates, and get_key *)

\* Transaction.is_option
is_option(t) == t.trans_type \in {"BTO", "STC", "OEXP"}

\* Transaction.is_buy
is_buy(t) == t.trans_type \in {"Buy", "BTO"}

\* Transaction.is_sell
is_sell(t) == t.trans_type \in {"Sell", "STC"}

\* the literal "Option Expiration for " as one token
Prefix == "Option Expiration for "

\* whitespace token removed by str.strip()
Blank == " "

RECURSIVE LStrip(_)
LStrip(s) == IF s # <<>> /\ Head(s) = Blank THEN LStrip(Tail(s)) ELSE s

RECURSIVE RStrip(_)
RStrip(s) ==
    IF s # <<>> /\ s[Len(s)] = Blank THEN RStrip(SubSeq(s, 1, Len(s) - 1)) ELSE s

\* str.strip()
Strip(s) == RStrip(LStrip(s))

\* desc.startswith(prefix)
StartsWithPrefix(desc) == desc # <<>> /\ Head(desc) = Prefix

\* the sentinel False and a description string are values of different types
StockIdent == [isstr |-> FALSE, s |-> <<>>]
StrIdent(desc) == [isstr |-> TRUE, s |-> desc]

\* a key that ignores the contract description
get_key_by_instrument(t) ==
    IF is_option(t)
    THEN <<t.instrument, StrIdent(<<>>)>>
    ELSE <<t.instrument, StockIdent>>

get_key(t) ==
    IF is_option(t)
    THEN LET desc == IF t.trans_type = "OEXP" /\ StartsWithPrefix(t.description)
                     THEN Strip(Tail(t.description))
                     ELSE t.description
         IN  <<t.instrument, StrIdent(desc)>>
    ELSE <<t.instrument, StockIdent>>

\* float(trans.quantity_str): the text is a sequence of characters over the
\* digits and the letter "S" (the broker writes expirations as "1S"); over
\* that alphabet float() accepts the non-empty runs of digits and raises
\* ValueError on anything else. Signs, points and exponents are not modelled.
Digits == {"0", "1", "2", "3", "4", "5", "6", "7", "8", "9"}

DigitVal(c) ==
    CASE c = "0" -> 0 [] c = "1" -> 1 [] c = "2" -> 2 [] c = "3" -> 3 [] c = "4" -> 4
      [] c = "5" -> 5 [] c = "6" -> 6 [] c = "7" -> 7 [] c = "8" -> 8 [] c = "9" -> 9

IsNumeral(s) == s # <<>> /\ \A i \in 1..Len(s) : s[i] \in Digits

RECURSIVE Decimal(_)
Decimal(s) ==
    IF s = <<>> THEN 0
    ELSE 10 * Decimal(SubSeq(s, 1, Len(s) - 1)) + DigitVal(s[Len(s)])

\* try: float(quantity_str) except ValueError: 0.0
ParseQuantity(s) == IF IsNumeral(s) THEN Decimal(s) ELSE 0

\* rows -> Transaction list, quantity 0.0 then parsed
LoadTransactions(rows) ==
    [i \in 1..Len(rows) |->
        [date |-> rows[i].date,
         instrument |-> rows[i].instrument,
         trans_type |-> rows[i].trans_type,
         quantity |-> ParseQuantity(rows[i].quantity_str),
         quantity_str |-> rows[i].quantity_str,
         amount |-> FromInt(rows[i].amount),
         description |-> rows[i].description]]

\* defaultdict read: a missing key reads as the empty container
Get(dict, key) == IF key \in DOMAIN dict THEN dict[key] ELSE <<>>

\* defaultdict write (also what a read of a missing key leaves behind)
Put(dict, key, val) == [k \in DOMAIN dict \cup {key} |-> IF k = key THEN val ELSE dict[k]]

----------------------------------------------------------------------------
(* Buy: pending wash-sale adjustments applied to the new lot *)

\* list.remove(x): drops the first element equal to x
RECURSIVE RemoveFirst(_, _)
RemoveFirst(lst, x) ==
    IF lst = <<>> THEN <<>>
    ELSE IF Head(lst) = x THEN Tail(lst)
    ELSE <<Head(lst)>> \o RemoveFirst(Tail(lst), x)

\* the same loop without the test of the deferral's expiration
RECURSIVE ApplyPendingAnyDate(_, _, _, _, _)
ApplyPendingAnyDate(live, pos, left, date, quantity) ==
    IF left = 0 THEN [live |-> live, adjustment |-> Zero]
    ELSE LET pending == live[pos]
             shares_to_apply == Min(quantity, pending.remaining_qty)
             upd == [pending EXCEPT !.remaining_qty = @ - shares_to_apply]
             live2 == [live EXCEPT ![pos] = upd]
             gone == upd.remaining_qty <= 0
             live3 == IF gone THEN RemoveFirst(live2, upd) ELSE live2
             r == ApplyPendingAnyDate(live3, IF gone THEN pos ELSE pos + 1,
                                      left - 1, date, quantity)
         IN  [live |-> r.live,
              adjustment |-> RAdd(RMulInt(pending.loss_per_share, shares_to_apply),
                                  r.adjustment)]

\* the same loop taking the buy's whole quantity from every live deferral
RECURSIVE ApplyPendingUncapped(_, _, _, _, _)
ApplyPendingUncapped(live, pos, left, date, quantity) ==
    IF left = 0 THEN [live |-> live, adjustment |-> Zero]
    ELSE LET pending == live[pos] IN
         IF date <= pending.expiration
         THEN LET shares_to_apply == quantity
                  upd == [pending EXCEPT !.remaining_qty = @ - shares_to_apply]
                  live2 == [live EXCEPT ![pos] = upd]
                  gone == upd.remaining_qty <= 0
                  live3 == IF gone THEN RemoveFirst(live2, upd) ELSE live2
                  r == ApplyPendingUncapped(live3, IF gone THEN pos ELSE pos + 1,
                                            left - 1, date, quantity)
              IN  [live |-> r.live,
                   adjustment |-> RAdd(RMulInt(pending.loss_per_share, shares_to_apply),
                                       r.adjustment)]
         ELSE ApplyPendingUncapped(live, pos + 1, left - 1, date, quantity)

\* for pending in pending_wash_sales[key][:] ... : the copy holds the same
\* dict objects as the list; pos is where the visited object sits in the
\* list, left counts the objects of the copy still to visit
RECURSIVE ApplyPending(_, _, _, _, _)
ApplyPending(live, pos, left, date, quantity) ==
    IF left = 0 THEN [live |-> live, adjustment |-> Zero]
    ELSE LET pending == live[pos] IN
         IF date <= pending.expiration
         THEN LET shares_to_apply == Min(quantity, pending.remaining_qty)
                  upd == [pending EXCEPT !.remaining_qty = @ - shares_to_apply]
                  live2 == [live EXCEPT ![pos] = upd]
                  gone == upd.remaining_qty <= 0
                  live3 == IF gone THEN RemoveFirst(live2, upd) ELSE live2
                  r == ApplyPending(live3, IF gone THEN pos ELSE pos + 1,
                                    left - 1, date, quantity)
              IN  [live |-> r.live,
                   adjustment |-> RAdd(RMulInt(pending.loss_per_share, shares_to_apply),
                                       r.adjustment)]
         ELSE ApplyPending(live, pos + 1, left - 1, date, quantity)

\* a Lot whose total_cost keeps its default
LotWithoutPostInit(quantity, price, date, isopt) ==
    [quantity |-> quantity, price |-> price, date |-> date, is_option |-> isopt,
     wash_sale_adjustment |-> Zero, total_cost |-> Zero]

\* Lot(...) with __post_init__
Lot(quantity, price, date, isopt) ==
    [quantity |-> quantity, price |-> price, date |-> date, is_option |-> isopt,
     wash_sale_adjustment |-> Zero, total_cost |-> RMulInt(price, quantity)]

NoTrace ==
    [kind |-> "skip", idx |-> 0, key |-> <<"", StockIdent>>, instrument |-> "",
     trans_type |-> "", date |-> 0, quantity |-> 0,
     amount |-> Zero, adjustment |-> Zero, price |-> Zero,
     cost_basis |-> Zero, net_gain_loss |-> Zero, breakdowns |-> <<>>,
     current_holding_wash |-> 0, used_from_current |-> 0,
     remaining_current_replacement |-> 0, future_replacement |-> 0,
     replacement_qty |-> 0, deferred_qty |-> 0, loss_per_share |-> Zero,
     lots_before |-> <<>>, lots_after |-> <<>>,
     pending_before |-> <<>>, pending_after |-> <<>>,
     gains_before |-> Zero, gains_after |-> Zero,
     losses_before |-> Zero, losses_after |-> Zero,
     disallowed_before |-> Zero, disallowed_after |-> Zero,
     after |-> <<>>]

\* the transactions, queues, pending lists and accumulators a step leaves
StateAfter(ts, h, p, a) ==
    [transactions |-> ts, holdings |-> h, pending_wash_sales |-> p, accs |-> a]

Cur == transactions[idx]

ProcessBuy ==
    /\ pc = "loop" /\ idx <= Len(transactions)
    /\ is_buy(Cur)
    /\ LET trans == Cur
           key == get_key(trans)
           total_cost0 == FromInt(Abs(trans.amount.n))
           before == Get(pending_wash_sales, key)
           ap == ApplyPending(before, 1, Len(before), trans.date, trans.quantity)
           total_cost == RAdd(total_cost0, ap.adjustment)
       IN  /\ pending_wash_sales' = Put(pending_wash_sales, key, ap.live)
           /\ IF trans.quantity = 0
              THEN \* total_cost / trans.quantity raises ZeroDivisionError
                   /\ pc' = "crashed"
                   /\ UNCHANGED <<holdings, idx, trace>>
              ELSE LET price_per_unit == RDivInt(total_cost, trans.quantity)
                       new_lot == Lot(trans.quantity, price_per_unit, trans.date,
                                      is_option(trans))
                       lots == Get(holdings, key)
                   IN  /\ holdings' = Put(holdings, key, Append(lots, new_lot))
                       /\ idx' = idx + 1
                       /\ pc' = pc
                       /\ trace' = Append(trace,
                             [NoTrace EXCEPT
                                !.kind = "buy", !.idx = idx, !.key = key,
                                !.instrument = trans.instrument,
                                !.trans_type = trans.trans_type,
                                !.date = trans.date, !.quantity = trans.quantity,
                                !.amount = total_cost0,
                                !.adjustment = ap.adjustment,
                                !.price = price_per_unit,
                                !.lots_before = lots,
                                !.lots_after = Append(lots, new_lot),
                                !.pending_before = before,
                                !.pending_after = ap.live,
                                !.gains_before = realized_gains[trans.instrument],
                                !.gains_after = realized_gains[trans.instrument],
                                !.losses_before = realized_losses[trans.instrument],
                                !.losses_after = realized_losses[trans.instrument],
                                !.disallowed_before = disallowed_losses[trans.instrument],
                                !.disallowed_after = disallowed_losses[trans.instrument],
                                !.after = StateAfter(transactions, holdings',
                                                     pending_wash_sales', accs)])
    /\ UNCHANGED <<transactions, tax_year, accs, total_gain_loss, earlier>>

----------------------------------------------------------------------------
(* Sell and option expiration: FIFO consumption and wash-sale decision *)

\* a trailing window that leaves out the thirtieth day before the closing
current_holding_wash_exclusive(lots, date) ==
    SumQty(SelectSeq(lots, LAMBDA lot : date - WashWindow < lot.date /\ lot.date <= date))

\* lots of the key acquired in [date - 30, date]
current_holding_wash(lots, date) ==
    SumQty(SelectSeq(lots, LAMBDA lot : date - WashWindow <= lot.date /\ lot.date <= date))

\* the same loop taking the newest lot (the tail of the queue) first
RECURSIVE ConsumeNewestFirst(_, _, _, _)
ConsumeNewestFirst(lots, remaining, price_per_share, date) ==
    IF remaining > 0 /\ lots # <<>>
    THEN LET lot == lots[Len(lots)]
             front == SubSeq(lots, 1, Len(lots) - 1)
             sell_qty == Min(remaining, lot.quantity)
             chunk == [sell_qty |-> sell_qty,
                       cost_basis_chunk |-> RMulInt(lot.price, sell_qty),
                       proceeds_chunk |-> RMulInt(price_per_share, sell_qty),
                       holding_period_days |-> date - lot.date]
             rest == IF lot.quantity > sell_qty
                     THEN front \o
                          <<[lot EXCEPT !.quantity = @ - sell_qty,
                                        !.total_cost = RMulInt(lot.price,
                                                               lot.quantity - sell_qty)]>>
                     ELSE front
             r == ConsumeNewestFirst(rest, remaining - sell_qty, price_per_share, date)
         IN  [lots |-> r.lots,
              breakdowns |-> <<chunk>> \o r.breakdowns,
              cost_basis |-> RAdd(chunk.cost_basis_chunk, r.cost_basis)]
    ELSE [lots |-> lots, breakdowns |-> <<>>, cost_basis |-> Zero]

\* the same loop refusing a closing larger than the open quantity
RECURSIVE ConsumeWithinOpen(_, _, _, _)
ConsumeWithinOpen(lots, remaining, price_per_share, date) ==
    IF remaining > 0 /\ lots # <<>> /\ remaining <= SumQty(lots)
    THEN LET lot == Head(lots)
             sell_qty == Min(remaining, lot.quantity)
             chunk == [sell_qty |-> sell_qty,
                       cost_basis_chunk |-> RMulInt(lot.price, sell_qty),
                       proceeds_chunk |-> RMulInt(price_per_share, sell_qty),
                       holding_period_days |-> date - lot.date]
             rest == IF lot.quantity > sell_qty
                     THEN <<[lot EXCEPT !.quantity = @ - sell_qty,
                                        !.total_cost = RMulInt(lot.price,
                                                               lot.quantity - sell_qty)]>>
                          \o Tail(lots)
                     ELSE Tail(lots)
             r == ConsumeWithinOpen(rest, remaining - sell_qty, price_per_share, date)
         IN  [lots |-> r.lots,
              breakdowns |-> <<chunk>> \o r.breakdowns,
              cost_basis |-> RAdd(chunk.cost_basis_chunk, r.cost_basis)]
    ELSE [lots |-> lots, breakdowns |-> <<>>, cost_basis |-> Zero]

\* while remaining > 0 and holdings[key]: take from the head lot
RECURSIVE Consume(_, _, _, _)
Consume(lots, remaining, price_per_share, date) ==
    IF remaining > 0 /\ lots # <<>>
    THEN LET lot == Head(lots)
             sell_qty == Min(remaining, lot.quantity)
             chunk == [sell_qty |-> sell_qty,
                       cost_basis_chunk |-> RMulInt(lot.price, sell_qty),
                       proceeds_chunk |-> RMulInt(price_per_share, sell_qty),
                       holding_period_days |-> date - lot.date]
             rest == IF lot.quantity > sell_qty
                     THEN <<[lot EXCEPT !.quantity = @ - sell_qty,
                                        !.total_cost = RMulInt(lot.price,
                                                               lot.quantity - sell_qty)]>>
                          \o Tail(lots)
                     ELSE Tail(lots)
             r == Consume(rest, remaining - sell_qty, price_per_share, date)
         IN  [lots |-> r.lots,
              breakdowns |-> <<chunk>> \o r.breakdowns,
              cost_basis |-> RAdd(chunk.cost_basis_chunk, r.cost_basis)]
    ELSE [lots |-> lots, breakdowns |-> <<>>, cost_basis |-> Zero]

\* a classification that needs more than 365 days
IsLongTermStrict(chunk) == chunk.holding_period_days > LongTermDays

\* holding_period_days >= 365
IsLongTerm(chunk) == chunk.holding_period_days >= LongTermDays

RECURSIVE SumProceeds(_)
SumProceeds(bds) ==
    IF bds = <<>> THEN Zero ELSE RAdd(Head(bds).proceeds_chunk, SumProceeds(Tail(bds)))

RECURSIVE SumCost(_)
SumCost(bds) ==
    IF bds = <<>> THEN Zero ELSE RAdd(Head(bds).cost_basis_chunk, SumCost(Tail(bds)))

LongChunks(bds) == SelectSeq(bds, IsLongTerm)
ShortChunks(bds) == SelectSeq(bds, LAMBDA c : ~IsLongTerm(c))

\* a sell branch that never looks ahead
future_replacement_none(trans) == 0

\* the look-ahead of the sell branch
future_replacement_sell(trans) ==
    SumQty(SelectSeq(transactions,
        LAMBDA t : /\ is_buy(t)
                   /\ t.instrument = trans.instrument
                   /\ IF is_option(trans)
                      THEN t.description = trans.description
                      ELSE is_option(t) = is_option(trans)
                   /\ trans.date < t.date
                   /\ t.date <= trans.date + WashWindow))

\* the look-ahead of the expiration branch
future_replacement_oexp(trans) ==
    SumQty(SelectSeq(transactions,
        LAMBDA t : /\ is_buy(t)
                   /\ t.instrument = trans.instrument
                   /\ IF t.trans_type \in {"BTO", "STC", "OEXP"}
                      THEN t.description = trans.description
                      ELSE FALSE
                   /\ trans.date < t.date
                   /\ t.date <= trans.date + WashWindow))

\* a decision that defers the whole closing whenever any replacement exists
deferred_qty_all(net_gain_loss, quantity, replacement_qty) ==
    IF IsNeg(net_gain_loss) /\ replacement_qty > 0 THEN quantity ELSE 0

\* a decision that defers the whole replacement quantity, however large
deferred_qty_uncapped(net_gain_loss, quantity, replacement_qty) ==
    IF IsNeg(net_gain_loss) /\ replacement_qty > 0 THEN replacement_qty ELSE 0

\* the wash-sale decision on net_gain_loss: what is deferred
deferred_qty_of(net_gain_loss, quantity, replacement_qty) ==
    IF IsNeg(net_gain_loss) /\ replacement_qty > 0
    THEN Min(quantity, replacement_qty)
    ELSE 0

\* a += of the magnitude of the amount
BumpMagnitude(dict, instrument, amount) ==
    [dict EXCEPT ![instrument] = RAdd(@, [n |-> Abs(amount.n), d |-> amount.d])]

Bump(dict, instrument, amount) ==
    [dict EXCEPT ![instrument] = RAdd(@, amount)]

\* The part the sell branch and the expiration branch share, from the
\* trailing-window sum to the realized/deferred bookkeeping; quantity > 0.
Close(trans, lots, quantity, future_replacement) ==
    LET key == get_key(trans)
        inst == trans.instrument
        chw == current_holding_wash(lots, trans.date)
        used_from_current == Min(quantity, chw)
        remaining_current_replacement == chw - used_from_current
        sale_proceeds == FromInt(Abs(trans.amount.n))
        sale_price_per_share == RDivInt(sale_proceeds, quantity)
        c == Consume(lots, quantity, sale_price_per_share, trans.date)
        net_gain_loss == RSub(sale_proceeds, c.cost_basis)
        long == LongChunks(c.breakdowns)
        short == ShortChunks(c.breakdowns)
        replacement_qty == remaining_current_replacement + future_replacement
        deferred_qty == deferred_qty_of(net_gain_loss, quantity, replacement_qty)
        loss_per_share == IF deferred_qty > 0
                          THEN RDivInt(RNeg(net_gain_loss), quantity) ELSE Zero
        deferred_amount == RMulInt(loss_per_share, deferred_qty)
        washed == IsNeg(net_gain_loss) /\ replacement_qty > 0
        pend == Get(pending_wash_sales, key)
        pend2 == IF washed
                 THEN Append(pend, [remaining_qty |-> deferred_qty,
                                    loss_per_share |-> loss_per_share,
                                    expiration |-> trans.date + WashWindow])
                 ELSE pend
        losses2 == IF ~IsNeg(net_gain_loss) THEN realized_losses
                   ELSE IF ~washed THEN Bump(realized_losses, inst, net_gain_loss)
                   ELSE IF quantity - deferred_qty > 0
                        THEN Bump(realized_losses, inst, RAdd(net_gain_loss, deferred_amount))
                        ELSE realized_losses
        gains2 == IF IsNeg(net_gain_loss) THEN realized_gains
                  ELSE Bump(realized_gains, inst, net_gain_loss)
        dis2 == IF washed THEN Bump(disallowed_losses, inst, deferred_amount)
                ELSE disallowed_losses
    IN  /\ holdings' = Put(holdings, key, c.lots)
        /\ pending_wash_sales' =
              IF washed THEN Put(pending_wash_sales, key, pend2) ELSE pending_wash_sales
        /\ gross_sales' = Bump(gross_sales, inst, sale_proceeds)
        /\ gross_cost_basis' = Bump(gross_cost_basis, inst, c.cost_basis)
        /\ long_term_gain' =
              Bump(long_term_gain, inst, RSub(SumProceeds(long), SumCost(long)))
        /\ gross_long_term_sales' = Bump(gross_long_term_sales, inst, SumProceeds(long))
        /\ gross_long_term_cost_basis' =
              Bump(gross_long_term_cost_basis, inst, SumCost(long))
        /\ short_term_gain' =
              Bump(short_term_gain, inst, RSub(SumProceeds(short), SumCost(short)))
        /\ gross_short_term_sales' = Bump(gross_short_term_sales, inst, SumProceeds(short))
        /\ gross_short_term_cost_basis' =
              Bump(gross_short_term_cost_basis, inst, SumCost(short))
        /\ realized_losses' = losses2
        /\ realized_gains' = gains2
        /\ disallowed_losses' = dis2
        /\ idx' = idx + 1
        /\ pc' = pc
        /\ trace' = Append(trace,
              [NoTrace EXCEPT
                 !.kind = "close", !.idx = idx, !.key = key, !.instrument = inst,
                 !.trans_type = trans.trans_type,
                 !.date = trans.date, !.quantity = quantity,
                 !.amount = sale_proceeds, !.cost_basis = c.cost_basis,
                 !.net_gain_loss = net_gain_loss, !.breakdowns = c.breakdowns,
                 !.current_holding_wash = chw,
                 !.used_from_current = used_from_current,
                 !.remaining_current_replacement = remaining_current_replacement,
                 !.future_replacement = future_replacement,
                 !.replacement_qty = replacement_qty,
                 !.deferred_qty = deferred_qty,
                 !.loss_per_share = loss_per_share,
                 !.lots_before = lots, !.lots_after = c.lots,
                 !.pending_before = pend, !.pending_after = pend2,
                 !.gains_before = realized_gains[inst], !.gains_after = gains2[inst],
                 !.losses_before = realized_losses[inst], !.losses_after = losses2[inst],
                 !.disallowed_before = disallowed_losses[inst],
                 !.disallowed_after = dis2[inst],
                 !.after = StateAfter([transactions EXCEPT ![idx] = trans],
                                      holdings', pending_wash_sales', accs')])

\* an exception in a closing branch: holdings[key] was read (so the key
\* exists), nothing else was written
CloseCrash(key) ==
    /\ pc' = "crashed"
    /\ holdings' = Put(holdings, key, Get(holdings, key))
    /\ UNCHANGED <<pending_wash_sales, accs, idx, trace>>

ProcessSell ==
    /\ pc = "loop" /\ idx <= Len(transactions)
    /\ is_sell(Cur)
    /\ LET trans == Cur
           key == get_key(trans)
       IN  IF trans.quantity = 0
           THEN \* sale_proceeds / trans.quantity raises ZeroDivisionError
                CloseCrash(key)
           ELSE Close(trans, Get(holdings, key), trans.quantity,
                      future_replacement_sell(trans))
    /\ UNCHANGED <<transactions, tax_year, total_gain_loss, earlier>>

\* a resolution that takes the oldest open lot only
resolved_quantity_first_lot(trans, lots) ==
    IF trans.quantity = 0
    THEN (IF lots = <<>> THEN 0 ELSE Head(lots).quantity)
    ELSE trans.quantity

\* if trans.quantity == 0: trans.quantity = total open quantity of the key
resolved_quantity(trans, lots) ==
    IF trans.quantity = 0 THEN SumQty(lots) ELSE trans.quantity

ProcessOEXP ==
    /\ pc = "loop" /\ idx <= Len(transactions)
    /\ ~is_buy(Cur) /\ ~is_sell(Cur) /\ Cur.trans_type = "OEXP"
    /\ LET key == get_key(Cur)
           lots == Get(holdings, key)
           quantity == resolved_quantity(Cur, lots)
           trans == [Cur EXCEPT !.quantity = quantity]
       IN  /\ transactions' = [transactions EXCEPT ![idx] = trans]
           /\ IF quantity = 0
              THEN \* expiration_proceeds / trans.quantity raises ZeroDivisionError
                   CloseCrash(key)
              ELSE Close(trans, lots, quantity, future_replacement_oexp(trans))
    /\ UNCHANGED <<tax_year, total_gain_loss, earlier>>

\* a row the query selects ('BCXL') that no branch handles
ProcessOther ==
    /\ pc = "loop" /\ idx <= Len(transactions)
    /\ ~is_buy(Cur) /\ ~is_sell(Cur) /\ Cur.trans_type # "OEXP"
    /\ idx' = idx + 1
    /\ trace' = Append(trace,
          [NoTrace EXCEPT !.idx = idx, !.key = get_key(Cur),
                          !.instrument = Cur.instrument,
                          !.trans_type = Cur.trans_type, !.date = Cur.date,
                          !.after = StateAfter(transactions, holdings,
                                               pending_wash_sales, accs)])
    /\ UNCHANGED <<transactions, tax_year, pc, holdings, pending_wash_sales, accs,
                   total_gain_loss, earlier>>

----------------------------------------------------------------------------
(* Final summary *)

\* the instruments of holdings_by_instrument: one per instrument of a key
\* of holdings
SummaryInstrumentsOpenOnly(h) == {k[1] : k \in {x \in DOMAIN h : h[x] # <<>>}}

SummaryInstruments(h) == {k[1] : k \in DOMAIN h}

RECURSIVE SumNet(_, _, _)
SumNet(insts, gains, losses) ==
    IF insts = {} THEN Zero
    ELSE LET i == CHOOSE x \in insts : TRUE
         IN  RAdd(RAdd(gains[i], losses[i]), SumNet(insts \ {i}, gains, losses))

Summary ==
    /\ pc = "loop" /\ idx > Len(transactions)
    /\ total_gain_loss' =
          SumNet(SummaryInstruments(holdings), realized_gains, realized_losses)
    /\ pc' = "done"
    /\ UNCHANGED <<transactions, tax_year, idx, holdings, pending_wash_sales, accs,
                   trace, earlier>>

----------------------------------------------------------------------------
(* Ledgers: what the query can return *)

Instruments == {"AAPL", "MSFT"}

\* ORDER BY activity_date, ...: every ledger is in date order; rows of one
\* date come in any order
RECURSIVE Ledgers(_, _)
Ledgers(U, n) ==
    IF n = 0 THEN {<<>>}
    ELSE LET P == Ledgers(U, n - 1)
         IN  P \cup {Append(x[1], x[2]) :
                       x \in {y \in P \X U :
                                /\ Len(y[1]) = n - 1
                                /\ n = 1 \/ y[1][n - 1].date <= y[2].date}}

Row(d, inst, tt, q, a, desc) ==
    [date |-> d, instrument |-> inst, trans_type |-> tt, quantity_str |-> q,
     amount |-> a, description |-> desc]

InitWith(U, years) ==
    /\ \E rows \in Ledgers(U, MaxLen) : transactions = LoadTransactions(rows)
    /\ tax_year \in years
    /\ idx = 1
    /\ pc = "loop"
    /\ holdings = <<>>
    /\ pending_wash_sales = <<>>
    /\ realized_gains = [i \in Instruments |-> Zero]
    /\ realized_losses = [i \in Instruments |-> Zero]
    /\ disallowed_losses = [i \in Instruments |-> Zero]
    /\ gross_sales = [i \in Instruments |-> Zero]
    /\ gross_cost_basis = [i \in Instruments |-> Zero]
    /\ long_term_gain = [i \in Instruments |-> Zero]
    /\ short_term_gain = [i \in Instruments |-> Zero]
    /\ gross_long_term_sales = [i \in Instruments |-> Zero]
    /\ gross_short_term_sales = [i \in Instruments |-> Zero]
    /\ gross_long_term_cost_basis = [i \in Instruments |-> Zero]
    /\ gross_short_term_cost_basis = [i \in Instruments |-> Zero]
    /\ total_gain_loss = Zero
    /\ trace = <<>>
    /\ earlier = <<>>

----------------------------------------------------------------------------
(* The next call: main.py runs process_year for one tax year after another *)

\* a call that goes on with the Transaction objects of the call before it
KeepLoaded(ts) == ts

\* the query and the quantity parsing, run again on the unchanged database:
\* the same rows, each quantity parsed anew from its text
Reload(ts) ==
    [i \in 1..Len(ts) |-> [ts[i] EXCEPT !.quantity = ParseQuantity(ts[i].quantity_str)]]

\* what a completed call passed through and ended with
CallRecord ==
    [trace |-> trace,
     final |-> StateAfter(transactions, holdings, pending_wash_sales, accs),
     total_gain_loss |-> total_gain_loss]

\* the function returned and is called again, for the next tax year: every
\* local is built anew
Rerun ==
    /\ pc = "done" /\ Len(earlier) + 1 < MaxCalls
    /\ earlier' = Append(earlier, CallRecord)
    /\ transactions' = Reload(transactions)
    /\ tax_year' = tax_year + 1
    /\ idx' = 1
    /\ pc' = "loop"
    /\ holdings' = <<>>
    /\ pending_wash_sales' = <<>>
    /\ realized_gains' = [i \in Instruments |-> Zero]
    /\ realized_losses' = [i \in Instruments |-> Zero]
    /\ disallowed_losses' = [i \in Instruments |-> Zero]
    /\ gross_sales' = [i \in Instruments |-> Zero]
    /\ gross_cost_basis' = [i \in Instruments |-> Zero]
    /\ long_term_gain' = [i \in Instruments |-> Zero]
    /\ short_term_gain' = [i \in Instruments |-> Zero]
    /\ gross_long_term_sales' = [i \in Instruments |-> Zero]
    /\ gross_short_term_sales' = [i \in Instruments |-> Zero]
    /\ gross_long_term_cost_basis' = [i \in Instruments |-> Zero]
    /\ gross_short_term_cost_basis' = [i \in Instruments |-> Zero]
    /\ total_gain_loss' = Zero
    /\ trace' = <<>>

----------------------------------------------------------------------------
(* The next-state relations *)

Next == ProcessBuy \/ ProcessSell \/ ProcessOEXP \/ ProcessOther \/ Summary

\* one process calling the function again and again
NextCalls ==
    ProcessBuy \/ ProcessSell \/ ProcessOEXP \/ ProcessOther \/ Summary \/ Rerun

----------------------------------------------------------------------------
(* Ledger families explored *)

StockName == <<"Apple">>

Call100 == <<"AAPL Call 100">>

Call110 == <<"AAPL Call 110">>

Q5 == <<"5">>
Q10 == <<"1", "0">>
Q15 == <<"1", "5">>
Q1 == <<"1">>
Q2 == <<"2">>
Q1S == <<"1", "S">>

\* one ticker: equity lots over the wash-sale window boundaries, a cancelled
\* buy, and one option contract that is opened and expires
StockRows ==
    {Row(0, "AAPL", "Buy", Q10, -100, StockName),
     Row(0, "AAPL", "Buy", Q10, -200, StockName),
     Row(0, "AAPL", "BCXL", Q10, 100, StockName),
     Row(0, "AAPL", "BTO", Q2, -100, Call100),
     Row(30, "AAPL", "Sell", Q10, 60, StockName),
     Row(30, "AAPL", "Sell", Q5, 60, StockName),
     Row(30, "AAPL", "Buy", Q5, -100, StockName),
     Row(31, "AAPL", "Buy", Q10, -100, StockName),
     Row(31, "AAPL", "Buy", Q5, -100, StockName),
     Row(31, "AAPL", "Sell", Q15, 60, StockName),
     Row(61, "AAPL", "Sell", Q5, 300, StockName),
     Row(61, "AAPL", "OEXP", Q1S, 0, <<Prefix>> \o Call100),
     Row(61, "AAPL", "OEXP", Q1, 0, <<Prefix>> \o Call100)}

Init == InitWith(StockRows, {2018})

Spec == Init /\ [][Next]_vars

\* lots held 364, 365 and 366 days at the closing
HoldRows ==
    {Row(0, "AAPL", "Buy", Q10, -100, StockName),
     Row(0, "AAPL", "Buy", Q5, -100, StockName),
     Row(0, "AAPL", "BCXL", Q10, 100, StockName),
     Row(1, "AAPL", "Buy", Q10, -200, StockName),
     Row(1, "AAPL", "Sell", Q5, 60, StockName),
     Row(365, "AAPL", "Sell", Q15, 300, StockName),
     Row(365, "AAPL", "Sell", Q10, 60, StockName),
     Row(365, "AAPL", "Buy", Q5, -100, StockName),
     Row(365, "AAPL", "OEXP", Q1S, 0, <<Prefix>> \o Call100),
     Row(366, "AAPL", "Sell", Q10, 300, StockName)}

InitHold == InitWith(HoldRows, {2018})

SpecHold == InitHold /\ [][Next]_vars

\* two option contracts on one underlying, and the equity of the same ticker
OptionRows ==
    {Row(0, "AAPL", "BTO", Q1, -100, Call100),
     Row(0, "AAPL", "BTO", Q2, -100, Call100),
     Row(0, "AAPL", "BTO", Q1, -200, Call110),
     Row(0, "AAPL", "Buy", Q10, -100, StockName),
     Row(30, "AAPL", "STC", Q1, 60, Call100),
     Row(30, "AAPL", "STC", Q1, 60, Call110),
     Row(30, "AAPL", "OEXP", Q1S, 0, <<Prefix>> \o Call100),
     Row(30, "AAPL", "OEXP", <<"0">>, 0, <<Prefix>> \o Call110 \o <<Blank>>),
     Row(30, "AAPL", "Sell", Q10, 60, StockName),
     Row(31, "AAPL", "BTO", Q1, -100, Call100),
     Row(31, "AAPL", "BCXL", Q10, 100, StockName)}

InitOpt == InitWith(OptionRows, {2018})

SpecOpt == InitOpt /\ [][Next]_vars

\* two tickers, closings in two calendar years, either year asked for
YearRows ==
    {Row(0, "AAPL", "Buy", Q10, -100, StockName),
     Row(0, "MSFT", "Buy", Q10, -200, <<"Microsoft">>),
     Row(0, "AAPL", "BTO", Q1, -100, Call100),
     Row(0, "AAPL", "Sell", Q10, 300, StockName),
     Row(365, "AAPL", "Sell", Q10, 300, StockName),
     Row(365, "MSFT", "Sell", Q10, 60, <<"Microsoft">>),
     Row(365, "AAPL", "OEXP", Q1S, 0, <<Prefix>> \o Call100),
     Row(365, "MSFT", "BCXL", Q10, 200, <<"Microsoft">>)}

InitYear == InitWith(YearRows, {2018, 2019})

SpecYear == InitYear /\ [][Next]_vars

\* an empty quantity field
QNone == <<>>

\* quantity fields that float() rejects, on every transaction type, next to
\* well-formed ones
QtyRows ==
    {Row(0, "AAPL", "Buy", Q10, -100, StockName),
     Row(0, "AAPL", "Buy", QNone, -100, StockName),
     Row(0, "AAPL", "BTO", Q1, -100, Call100),
     Row(0, "AAPL", "BTO", Q1S, -100, Call100),
     Row(1, "AAPL", "Sell", Q5, 60, StockName),
     Row(1, "AAPL", "Sell", QNone, 60, StockName),
     Row(1, "AAPL", "STC", Q1S, 60, Call100),
     Row(1, "AAPL", "OEXP", Q1S, 0, <<Prefix>> \o Call100),
     Row(1, "AAPL", "BCXL", QNone, 100, StockName),
     Row(2, "AAPL", "Buy", Q5, -100, StockName)}

InitQty == InitWith(QtyRows, {2018})

\* losses closed on days 31 and 32, with lots acquired 30 and 31 days before
\* and buys 30 and 31 days after; a closing at break-even and one at a gain
\* with the same purchases around them
WashRows ==
    {Row(0, "AAPL", "Buy", Q10, -200, StockName),
     Row(0, "AAPL", "BCXL", Q10, 200, StockName),
     Row(1, "AAPL", "Buy", Q10, -200, StockName),
     Row(31, "AAPL", "Sell", Q10, 60, StockName),
     Row(31, "AAPL", "Sell", Q5, 60, StockName),
     Row(31, "AAPL", "Sell", Q5, 100, StockName),
     Row(32, "AAPL", "Sell", Q5, 60, StockName),
     Row(32, "AAPL", "Sell", Q5, 300, StockName),
     Row(61, "AAPL", "Buy", Q5, -100, StockName),
     Row(61, "AAPL", "Buy", Q10, -100, StockName),
     Row(62, "AAPL", "Buy", Q5, -100, StockName),
     Row(62, "AAPL", "OEXP", Q1, 0, <<Prefix>> \o Call100)}

InitWash == InitWith(WashRows, {2018})

SpecWash == InitWash /\ [][Next]_vars

SpecQty == InitQty /\ [][Next]_vars

\* one database read by two calls: a loss whose deferral stays pending, an
\* expiration whose quantity the first call fills in, a second ticker
CallRows ==
    {Row(0, "AAPL", "Buy", Q10, -200, StockName),
     Row(0, "AAPL", "BTO", Q2, -100, Call100),
     Row(0, "AAPL", "BCXL", Q10, 100, StockName),
     Row(1, "AAPL", "Sell", Q5, 60, StockName),
     Row(1, "AAPL", "STC", Q1, 60, Call100),
     Row(2, "AAPL", "Buy", Q5, -100, StockName),
     Row(2, "AAPL", "OEXP", Q1S, 0, <<Prefix>> \o Call100),
     Row(2, "MSFT", "Sell", Q5, 60, <<"Microsoft">>)}

InitCalls == InitWith(CallRows, {2018})

SpecCalls == InitCalls /\ [][NextCalls]_vars

----------------------------------------------------------------------------
(* Reading the trace *)

HasLast == trace # <<>>
Last == trace[Len(trace)]

\* total quantity of the first k lots
PrefixQty(lots, k) == SumQty(SubSeq(lots, 1, k))

\* number of lots a closing of quantity q exhausts
WholeLots(lots, q) ==
    CHOOSE k \in 0..Len(lots) :
        /\ PrefixQty(lots, k) <= q
        /\ k < Len(lots) => PrefixQty(lots, k + 1) > q

RECURSIVE SumLotCost(_)
SumLotCost(lots) ==
    IF lots = <<>> THEN Zero
    ELSE RAdd(RMulInt(Head(lots).price, Head(lots).quantity), SumLotCost(Tail(lots)))

----------------------------------------------------------------------------
(* C1 *)

\* C1: FIFO consumption. A closing event of quantity q that does not exceed
\* the open quantity of its key exhausts the first k lots of the queue in
\* acquisition order, takes the remainder (if any) from lot k+1 only, leaves
\* the later lots untouched, reports one chunk per lot drawn from, and its
\* cost basis is the sum of chunk quantity x lot price.
C1_FifoConsumption ==
    (HasLast /\ Last.kind = "close" /\ Last.quantity <= SumQty(Last.lots_before)) =>
        LET e == Last
            L == e.lots_before
            k == WholeLots(L, e.quantity)
            rem == e.quantity - PrefixQty(L, k)
            part == IF rem > 0
                    THEN <<[L[k + 1] EXCEPT
                              !.quantity = L[k + 1].quantity - rem,
                              !.total_cost = RMulInt(L[k + 1].price,
                                                     L[k + 1].quantity - rem)]>>
                    ELSE <<>>
            drawn == IF rem > 0 THEN k + 1 ELSE k
        IN  /\ Get(holdings, e.key) = e.lots_after
            /\ e.lots_after = part \o SubSeq(L, drawn + 1, Len(L))
            /\ Len(e.breakdowns) = drawn
            /\ \A j \in 1..drawn :
                  /\ e.breakdowns[j].sell_qty = IF j <= k THEN L[j].quantity ELSE rem
                  /\ e.breakdowns[j].cost_basis_chunk =
                        RMulInt(L[j].price, e.breakdowns[j].sell_qty)
            /\ e.cost_basis =
                  RAdd(SumLotCost(SubSeq(L, 1, k)),
                       IF rem > 0 THEN RMulInt(L[k + 1].price, rem) ELSE Zero)

\* buys of 10 @ 10 and 10 @ 20, then a closing of 15: cost basis 200 and one
\* lot of 5 @ 20 left
C1_Witness ==
    /\ HasLast /\ Last.kind = "close" /\ Last.quantity = 15
    /\ Len(Last.lots_before) = 2
    /\ Last.lots_before[1].quantity = 10 /\ Last.lots_before[1].price = FromInt(10)
    /\ Last.lots_before[2].quantity = 10 /\ Last.lots_before[2].price = FromInt(20)
    /\ Last.cost_basis = FromInt(200)
    /\ Len(Last.lots_after) = 1
    /\ Last.lots_after[1].quantity = 5 /\ Last.lots_after[1].price = FromInt(20)

----------------------------------------------------------------------------
(* C2 *)

\* positions of the ledger holding a buy of key dated in (lo, hi]
BuysOfKeyIn(key, lo, hi) ==
    {j \in 1..Len(transactions) :
        /\ is_buy(transactions[j])
        /\ get_key(transactions[j]) = key
        /\ lo < transactions[j].date
        /\ transactions[j].date <= hi}

IsSellEntry(e) == e.kind = "close" /\ e.trans_type \in {"Sell", "STC"}

\* entry s is a sell at a loss whose only buy of the same key dated in
\* (date, date + 30] is at position b and has at least the sold quantity
FullyReplacedSell(s, b) ==
    /\ IsSellEntry(trace[s])
    /\ IsNeg(trace[s].net_gain_loss)
    /\ BuysOfKeyIn(trace[s].key, trace[s].date, trace[s].date + 30) = {b}
    /\ transactions[b].quantity >= trace[s].quantity

\* the sell adds nothing to realized_losses and its whole loss to
\* disallowed_losses
SellFullyDeferred(e) ==
    /\ e.losses_after = e.losses_before
    /\ e.disallowed_after = RAdd(e.disallowed_before, RNeg(e.net_gain_loss))

\* the deferral a closing entry registers, as it sits in the pending list
DeferralOf(e) ==
    [remaining_qty |-> e.deferred_qty,
     loss_per_share |-> e.loss_per_share,
     expiration |-> e.date + 30]

\* the lot the buy entry created costs |amount| + the loss of e
BuyLotCarriesLoss(buy, e) ==
    /\ buy.kind = "buy"
    /\ buy.lots_after[Len(buy.lots_after)].total_cost =
          RAdd(buy.amount, RNeg(e.net_gain_loss))

\* C2 as stated: a sell at a loss L of quantity q followed by a single buy
\* of the key with quantity >= q dated within the next 30 days adds 0 to
\* realized_losses and L to disallowed_losses, and that buy's lot costs
\* |amount| + L.
C2_FullDeferralAsStated ==
    \A s \in 1..Len(trace) : \A b \in 1..Len(transactions) :
        FullyReplacedSell(s, b) =>
            /\ SellFullyDeferred(trace[s])
            /\ b <= Len(trace) => BuyLotCarriesLoss(trace[b], trace[s])

\* C2 amended: the same, the cost of the buy's lot being |amount| + L when
\* the deferral of that sell, whole, is the only deferral pending for the
\* key at the time the buy is processed.
C2_FullDeferral ==
    \A s \in 1..Len(trace) : \A b \in 1..Len(transactions) :
        FullyReplacedSell(s, b) =>
            /\ SellFullyDeferred(trace[s])
            /\ (b <= Len(trace) /\ trace[b].pending_before = <<DeferralOf(trace[s])>>)
                  => BuyLotCarriesLoss(trace[b], trace[s])

\* buy 10 for 200, sell 10 for 60 thirty days later (loss 140), buy 10 for
\* 100 the next day: the new lot costs 240
C2_Witness ==
    /\ Len(trace) = 3
    /\ FullyReplacedSell(2, 3)
    /\ trace[2].net_gain_loss = FromInt(-140)
    /\ trace[2].disallowed_after = FromInt(140)
    /\ trace[3].kind = "buy"
    /\ trace[3].pending_before = <<DeferralOf(trace[2])>>
    /\ trace[3].lots_after[Len(trace[3].lots_after)].total_cost = FromInt(240)

----------------------------------------------------------------------------
(* C3 *)

\* entry e closed at a loss with replacement quantity r, 0 < r < quantity
PartiallyReplaced(e) ==
    /\ e.kind = "close"
    /\ IsNeg(e.net_gain_loss)
    /\ 0 < e.replacement_qty
    /\ e.replacement_qty < e.quantity

\* C3: partial replacement. A closing of quantity q with net loss L and
\* replacement quantity r, 0 < r < q, registers exactly one pending deferral
\* (remaining_qty r, loss_per_share L/q, expiring 30 days later), adds
\* r x L/q to disallowed_losses and -(q - r) x L/q to realized_losses.
C3_PartialReplacement ==
    (HasLast /\ PartiallyReplaced(Last)) =>
        LET e == Last
            q == e.quantity
            r == e.replacement_qty
            L == RNeg(e.net_gain_loss)
            added == Get(pending_wash_sales, e.key)
        IN  /\ Len(added) = Len(e.pending_before) + 1
            /\ SubSeq(added, 1, Len(e.pending_before)) = e.pending_before
            /\ added[Len(added)].remaining_qty = r
            /\ RMulInt(added[Len(added)].loss_per_share, q) = L
            /\ added[Len(added)].expiration = e.date + 30
            /\ RMulInt(RSub(disallowed_losses[e.instrument], e.disallowed_before), q)
                  = RMulInt(L, r)
            /\ RMulInt(RSub(realized_losses[e.instrument], e.losses_before), q)
                  = RNeg(RMulInt(L, q - r))

\* sell 10 at a loss of 140 with 5 replacement shares: 70 deferred, 70 realized
C3_Witness ==
    /\ HasLast /\ PartiallyReplaced(Last)
    /\ Last.quantity = 10 /\ Last.replacement_qty = 5
    /\ Last.net_gain_loss = FromInt(-140)
    /\ RSub(disallowed_losses[Last.instrument], Last.disallowed_before) = FromInt(70)
    /\ RSub(realized_losses[Last.instrument], Last.losses_before) = FromInt(-70)

----------------------------------------------------------------------------
(* C4 *)

\* every buy of the key dated within 30 days of the closing, before or
\* after, is the acquisition of a lot the closing draws from: the buys in
\* the window are as many as the drawn lots acquired in the window
NoOtherBuyInWindow(e) ==
    Cardinality(BuysOfKeyIn(e.key, e.date - 31, e.date + 30))
        = Len(SelectSeq(e.breakdowns, LAMBDA c : c.holding_period_days <= 30))

\* C4: a sell at a loss with no buy of its key within 30 days before or
\* after, other than the acquisitions of the lots it draws from, realizes
\* the whole loss, leaves disallowed_losses unchanged and registers no
\* pending deferral, also when it closes part of a lot acquired in the
\* trailing 30 days.
C4_NoReplacementFullRealization ==
    (HasLast /\ IsSellEntry(Last) /\ IsNeg(Last.net_gain_loss)
       /\ NoOtherBuyInWindow(Last)) =>
        /\ realized_losses[Last.instrument] = RAdd(Last.losses_before, Last.net_gain_loss)
        /\ disallowed_losses[Last.instrument] = Last.disallowed_before
        /\ Get(pending_wash_sales, Last.key) = Last.pending_before

----------------------------------------------------------------------------
(* C5 *)

\* every closing of key that registered a deferral is followed in the
\* ledger by a buy of key dated no later than 30 days after it
EveryDeferralHasLaterBuy(key) ==
    \A s \in 1..Len(trace) :
        (trace[s].kind = "close" /\ trace[s].key = key /\ trace[s].deferred_qty > 0) =>
            \E j \in (s + 1)..Len(transactions) :
                /\ is_buy(transactions[j])
                /\ get_key(transactions[j]) = key
                /\ transactions[j].date <= trace[s].date + 30

\* C5: a deferred loss is never lost when a qualifying buy exists. At the
\* end of the run, a key each of whose deferrals was followed by a buy of
\* the key dated within 30 days of the closing has no deferral left pending.
C5_DeferredLossAbsorbed ==
    pc = "done" =>
        \A key \in DOMAIN pending_wash_sales :
            EveryDeferralHasLaterBuy(key) => pending_wash_sales[key] = <<>>

----------------------------------------------------------------------------
(* C6 *)

RECURSIVE SumRats(_)
SumRats(seq) == IF seq = <<>> THEN Zero ELSE RAdd(Head(seq), SumRats(Tail(seq)))

\* what the chunks of e held at least 365 days (long = TRUE) or at most 364
\* days (long = FALSE) amount to
ChunkProceeds(e, long) ==
    SumRats([j \in 1..Len(e.breakdowns) |->
                IF (e.breakdowns[j].holding_period_days >= 365) = long
                THEN e.breakdowns[j].proceeds_chunk ELSE Zero])

ChunkCost(e, long) ==
    SumRats([j \in 1..Len(e.breakdowns) |->
                IF (e.breakdowns[j].holding_period_days >= 365) = long
                THEN e.breakdowns[j].cost_basis_chunk ELSE Zero])

\* C6: holding-period split. Each chunk of a closing is classified on the
\* holding period of its own lot (closing date minus the lot's acquisition
\* date): the chunks held >= 365 days add their proceeds, cost basis and
\* gain to the long-term accumulators only, the others to the short-term
\* accumulators only, and a chunk's proceeds are proceeds x chunk quantity /
\* event quantity.
C6_HoldingPeriodSplit ==
    [][(trace' # trace /\ trace'[Len(trace')].kind = "close") =>
          LET e == trace'[Len(trace')]
              i == e.instrument
          IN  /\ \A j \in 1..Len(e.breakdowns) :
                    /\ e.breakdowns[j].holding_period_days =
                          e.date - e.lots_before[j].date
                    /\ RMulInt(e.breakdowns[j].proceeds_chunk, e.quantity) =
                          RMulInt(e.amount, e.breakdowns[j].sell_qty)
              /\ gross_long_term_sales'[i] =
                    RAdd(gross_long_term_sales[i], ChunkProceeds(e, TRUE))
              /\ gross_long_term_cost_basis'[i] =
                    RAdd(gross_long_term_cost_basis[i], ChunkCost(e, TRUE))
              /\ long_term_gain'[i] =
                    RAdd(long_term_gain[i],
                         RSub(ChunkProceeds(e, TRUE), ChunkCost(e, TRUE)))
              /\ gross_short_term_sales'[i] =
                    RAdd(gross_short_term_sales[i], ChunkProceeds(e, FALSE))
              /\ gross_short_term_cost_basis'[i] =
                    RAdd(gross_short_term_cost_basis[i], ChunkCost(e, FALSE))
              /\ short_term_gain'[i] =
                    RAdd(short_term_gain[i],
                         RSub(ChunkProceeds(e, FALSE), ChunkCost(e, FALSE)))]_vars

\* a closing of 15 that drew 10 from a lot held 365 days and 5 from a lot
\* held 364 days, booked 200 of its proceeds long term and 100 short term
C6_Witness ==
    /\ HasLast /\ Last.kind = "close" /\ Len(Last.breakdowns) = 2
    /\ Len(trace) = 3
    /\ Last.breakdowns[1].holding_period_days = 365
    /\ Last.breakdowns[2].holding_period_days = 364
    /\ gross_long_term_sales[Last.instrument] = FromInt(200)
    /\ gross_short_term_sales[Last.instrument] = FromInt(100)

----------------------------------------------------------------------------
(* C7 *)

IsContract(t) == t.trans_type \in {"BTO", "STC"}

\* contracts of one underlying with different descriptions have different
\* keys, and no option key is the equity key
KeysSeparate ==
    \A i, j \in 1..Len(transactions) :
        LET a == transactions[i]
            b == transactions[j]
        IN  /\ (IsContract(a) /\ IsContract(b) /\ a.instrument = b.instrument
                  /\ a.description # b.description) => get_key(a) # get_key(b)
            /\ (is_option(a) /\ ~is_option(b)) => get_key(a) # get_key(b)

KnownKeys ==
    DOMAIN holdings \cup DOMAIN pending_wash_sales

\* the step on transactions[idx] leaves the queue and the pending list of
\* every key but its own as they were
OtherKeysUntouched ==
    (pc = "loop" /\ idx <= Len(transactions)) =>
        \A k \in (KnownKeys \cup KnownKeys') \ {get_key(transactions[idx])} :
            /\ Get(holdings', k) = Get(holdings, k)
            /\ Get(pending_wash_sales', k) = Get(pending_wash_sales, k)

\* C7: option key isolation. Two contracts on one underlying with different
\* descriptions have different keys (neither the equity key), and every buy,
\* sell or expiration leaves the lot queue and the pending wash-sale list of
\* every other key unchanged.
C7_OptionKeyIsolation == []KeysSeparate /\ [][OtherKeysUntouched]_vars

\* both contracts and the equity hold a lot while one contract is closed
C7_Witness ==
    /\ HasLast /\ Last.kind = "close" /\ Last.key[2].isstr
    /\ \E k1, k2, k3 \in DOMAIN holdings :
          /\ k1[2].isstr /\ k2[2].isstr /\ ~k3[2].isstr
          /\ k1 # k2 /\ k1[1] = k2[1] /\ k1[1] = k3[1]
          /\ holdings[k2] # <<>> /\ holdings[k3] # <<>>
          /\ k1 = Last.key /\ Last.lots_before # <<>>

----------------------------------------------------------------------------
(* C8 *)

\* entry e is an expiration whose quantity text gave 0, on a key with open lots
UnspecifiedExpiration(e) ==
    /\ e.kind = "close" /\ e.trans_type = "OEXP"
    /\ ParseQuantity(transactions[e.idx].quantity_str) = 0
    /\ SumQty(e.lots_before) > 0

RECURSIVE SumChunkQty(_)
SumChunkQty(bds) == IF bds = <<>> THEN 0 ELSE Head(bds).sell_qty + SumChunkQty(Tail(bds))

RECURSIVE SumTotalCost(_)
SumTotalCost(lots) ==
    IF lots = <<>> THEN Zero ELSE RAdd(Head(lots).total_cost, SumTotalCost(Tail(lots)))

\* C8: unspecified expiration quantity. An expiration whose quantity is 0 or
\* unparseable, on a key with open quantity n > 0, is processed with quantity
\* n: it consumes exactly n units, leaves the key's queue empty, and its cost
\* basis is the total cost of the lots that were open.
C8_UnspecifiedExpiration ==
    (HasLast /\ UnspecifiedExpiration(Last)) =>
        LET e == Last
            n == SumQty(e.lots_before)
        IN  /\ e.quantity = n
            /\ transactions[e.idx].quantity = n
            /\ SumChunkQty(e.breakdowns) = n
            /\ Get(holdings, e.key) = <<>>
            /\ e.cost_basis = SumTotalCost(e.lots_before)

\* an expiration with quantity text "1S" closes two open lots of 1 and 2
\* contracts: quantity 3, cost basis 200
C8_Witness ==
    /\ HasLast /\ UnspecifiedExpiration(Last)
    /\ Len(Last.lots_before) = 2
    /\ Last.quantity = 3
    /\ Last.cost_basis = FromInt(200)
    /\ Get(holdings, Last.key) = <<>>

----------------------------------------------------------------------------
(* C9, C10 *)

RECURSIVE SumOverInstruments(_, _, _)
SumOverInstruments(insts, gains, losses) ==
    IF insts = {} THEN Zero
    ELSE LET i == CHOOSE x \in insts : TRUE
         IN  RAdd(SumOverInstruments(insts \ {i}, gains, losses),
                  RAdd(losses[i], gains[i]))

WithRealized ==
    {i \in Instruments : realized_gains[i] # Zero \/ realized_losses[i] # Zero}

\* C9: summary total. The returned value is the sum, over the instruments
\* that have a realized gain or loss, of realized_gains + realized_losses,
\* each instrument counted once.
C9_SummaryTotal ==
    pc = "done" =>
        total_gain_loss = SumOverInstruments(WithRealized, realized_gains, realized_losses)

\* returned: one ticker closed out at a gain through two keys' worth of
\* holdings, another only ever sold
C9_Witness ==
    /\ pc = "done"
    /\ Cardinality(WithRealized) = 2
    /\ \E k \in DOMAIN holdings : holdings[k] = <<>> /\ k[1] \in WithRealized
    /\ \E k1, k2 \in DOMAIN holdings : k1 # k2 /\ k1[1] = k2[1]
    /\ \E s \in 1..Len(trace) : trace[s].kind = "close" /\ trace[s].lots_before = <<>>

\* calendar year of a day number (day 0 is 1 January 2018, years of 365 days)
YearOf(d) == 2018 + (d \div 365)

\* what the closings dated in year y added to the realized accumulators
RealizedInYear(y) ==
    SumRats([s \in 1..Len(trace) |->
                IF trace[s].kind = "close" /\ YearOf(trace[s].date) = y
                THEN RAdd(RSub(trace[s].gains_after, trace[s].gains_before),
                          RSub(trace[s].losses_after, trace[s].losses_before))
                ELSE Zero])

\* C10: tax-year scope of the total. The returned value is what the closings
\* dated in tax_year realized; closings of other years contribute nothing.
C10_TaxYearScope ==
    pc = "done" => total_gain_loss = RealizedInYear(tax_year)

----------------------------------------------------------------------------
(* C11 *)

\* the transaction about to be processed is a closing event (sell, option
\* close or expiration) on a key without open lots; a sell or option close
\* carries a quantity
UnmatchedClose ==
    /\ pc = "loop" /\ idx <= Len(transactions)
    /\ \/ is_sell(Cur) /\ Cur.quantity > 0
       \/ Cur.trans_type = "OEXP"
    /\ Get(holdings, get_key(Cur)) = <<>>

\* C11: unmatched close is not fatal. The step on a closing event (sell,
\* option close or expiration, the expiration with unspecified quantity
\* included) whose key has no open lots raises nothing and moves on to the
\* next transaction, consumes nothing, has cost basis 0 and books its full
\* proceeds as a realized gain.
C11_UnmatchedCloseNotFatal ==
    [][UnmatchedClose =>
          LET i == Cur.instrument
              k == get_key(Cur)
          IN  /\ pc' = "loop"
              /\ idx' = idx + 1
              /\ Get(holdings', k) = <<>>
              /\ gross_cost_basis'[i] = gross_cost_basis[i]
              /\ realized_gains'[i] =
                    RAdd(realized_gains[i], FromInt(Abs(Cur.amount.n)))
              /\ realized_losses' = realized_losses
              /\ disallowed_losses' = disallowed_losses]_vars

----------------------------------------------------------------------------
(* C12 *)

\* the transaction about to be processed has a quantity field that is not
\* a number
MalformedQuantity ==
    /\ pc = "loop" /\ idx <= Len(transactions)
    /\ ~IsNumeral(Cur.quantity_str)

\* C12: malformed quantity is non-fatal. A transaction of any type whose
\* quantity field cannot be parsed as a number was given quantity zero, and
\* the step on it raises nothing and moves on to the next transaction.
C12_MalformedQuantityNotFatal ==
    [][MalformedQuantity =>
          /\ ParseQuantity(Cur.quantity_str) = 0
          /\ pc' = "loop"
          /\ idx' = idx + 1]_vars

----------------------------------------------------------------------------
(* C13 *)

\* a call that has processed nothing yet holds what a first call starts with
StartsFresh ==
    (pc = "loop" /\ idx = 1) =>
        /\ trace = <<>>
        /\ \A i \in 1..Len(transactions) :
              transactions[i].quantity = ParseQuantity(transactions[i].quantity_str)
        /\ DOMAIN holdings = {} /\ DOMAIN pending_wash_sales = {}
        /\ \A a \in 1..Len(accs) : \A i \in Instruments : accs[a][i] = Zero

\* the running call has, event by event, the records (computed values and
\* whole state after the event) of the completed call c, and ends as it did
SameAsCall(c) ==
    /\ Len(trace) <= Len(c.trace)
    /\ \A j \in 1..Len(trace) : trace[j] = c.trace[j]
    /\ pc # "crashed"
    /\ pc = "done" =>
          /\ Len(trace) = Len(c.trace)
          /\ StateAfter(transactions, holdings, pending_wash_sales, accs) = c.final
          /\ total_gain_loss = c.total_gain_loss

----------------------------------------------------------------------------
(* C14 *)

\* total quantity of the buys of key dated in (date, date + 30]
BoughtAfter(key, date) ==
    SumQty(SelectSeq(transactions,
        LAMBDA t : /\ is_buy(t)
                   /\ get_key(t) = key
                   /\ date < t.date
                   /\ t.date <= date + 30))

\* C14: look-ahead replacement is by key for every kind of closing event.
\* For each sell, option close and expiration the forward-looking
\* replacement quantity is the total quantity of the buys of the closing's
\* key dated after the closing and at most 30 days after it; so an
\* expiration at a loss followed within 30 days by a buy-to-open of the same
\* contract defers the loss.
C14_LookAheadByKey ==
    (HasLast /\ Last.kind = "close") =>
        /\ Last.future_replacement = BoughtAfter(Last.key, Last.date)
        /\ (IsNeg(Last.net_gain_loss) /\ BoughtAfter(Last.key, Last.date) > 0)
              => Last.deferred_qty > 0

----------------------------------------------------------------------------
(* C15 *)

\* quantity of lots acquired in [date - 30, date]
AcquiredInWindow(lots, date) ==
    SumQty(SelectSeq(lots, LAMBDA lot : date - 30 <= lot.date /\ lot.date <= date))

\* C15: look-back replacement counts only lots not sold by this closing.
\* For every closing event of quantity q, the trailing-window part of the
\* replacement quantity, capped at q, is min(q, the quantity of the key's
\* lots acquired in [date - 30, date] that is still open once the closing
\* has consumed its lots first-in first-out).
C15_LookBackExcludesSold ==
    (HasLast /\ Last.kind = "close") =>
        Min(Last.quantity, Last.remaining_current_replacement) =
            Min(Last.quantity, AcquiredInWindow(Last.lots_after, Last.date))

----------------------------------------------------------------------------
(* C16 *)

\* the pending deferrals P in creation order, each unexpired one reduced by
\* min(b, remaining_qty) and dropped when nothing remains, with the
\* adjustment those quantities amount to
RECURSIVE Absorbed(_, _, _)
Absorbed(P, d, b) ==
    IF P = <<>> THEN [left |-> <<>>, adjustment |-> Zero]
    ELSE LET p == Head(P)
             r == Absorbed(Tail(P), d, b)
             take == IF p.expiration >= d
                     THEN (IF b <= p.remaining_qty THEN b ELSE p.remaining_qty)
                     ELSE 0
             kept == IF p.expiration >= d /\ p.remaining_qty - take = 0
                     THEN <<>>
                     ELSE <<[p EXCEPT !.remaining_qty = p.remaining_qty - take]>>
         IN  [left |-> kept \o r.left,
              adjustment |-> RAdd(RMulInt(p.loss_per_share, take), r.adjustment)]

\* C16: apply_to_buy. A buy of key K dated d with quantity b visits the
\* pending deferrals of K in creation order; each with expiration >= d loses
\* min(b, remaining_qty), adds that quantity x its loss_per_share to the
\* buy's adjustment and leaves the list exactly when nothing of it remains;
\* each with expiration < d is left as it was; the new lot's price is
\* (|amount| + adjustment) / b.
C16_ApplyToBuy ==
    (HasLast /\ Last.kind = "buy") =>
        LET e == Last
            x == Absorbed(e.pending_before, e.date, e.quantity)
            lot == e.lots_after[Len(e.lots_after)]
        IN  /\ Get(pending_wash_sales, e.key) = x.left
            /\ e.adjustment = x.adjustment
            /\ Get(holdings, e.key) = Append(e.lots_before, lot)
            /\ lot.quantity = e.quantity /\ lot.date = e.date
            /\ RMulInt(lot.price, e.quantity) = RAdd(e.amount, e.adjustment)

\* a buy on day 62 finds two deferrals of 5 shares at 8 a share: the one
\* that expired on day 61 stays, the one expiring on day 62 is absorbed
\* whole and leaves the list; the lot of 5 bought for 100 costs 140
C16_Witness ==
    /\ HasLast /\ Last.kind = "buy" /\ Last.date = 62 /\ Last.quantity = 5
    /\ Len(Last.pending_before) = 2
    /\ Last.pending_before[1].expiration = 61
    /\ Last.pending_before[2].expiration = 62
    /\ Get(pending_wash_sales, Last.key) = <<Last.pending_before[1]>>
    /\ Last.adjustment = FromInt(40)
    /\ Last.lots_after[Len(Last.lots_after)].total_cost = FromInt(140)

----------------------------------------------------------------------------
(* C17 *)

RECURSIVE SumRemaining(_)
SumRemaining(P) ==
    IF P = <<>> THEN 0 ELSE Head(P).remaining_qty + SumRemaining(Tail(P))

\* C17: a buy never absorbs more deferred quantity than it acquires. For
\* every buy of quantity b, what the buy takes off the remaining_qty of the
\* pending deferrals of its key, all together, is at most b.
C17_BuyAbsorbsAtMostItsQuantity ==
    (HasLast /\ Last.kind = "buy") =>
        SumRemaining(Last.pending_before)
            - SumRemaining(Get(pending_wash_sales, Last.key)) <= Last.quantity

----------------------------------------------------------------------------
(* C18 *)

\* the step processed a closing whose net_gain_loss is not negative
ClosedWithoutLoss ==
    /\ Len(trace') = Len(trace) + 1
    /\ trace'[Len(trace')].kind = "close"
    /\ trace'[Len(trace')].net_gain_loss.n >= 0

\* C18: gains are never washed. A closing event (sell, option close or
\* expiration) with net_gain_loss >= 0 adds exactly net_gain_loss to
\* realized_gains of its instrument and leaves realized_losses,
\* disallowed_losses and every pending wash-sale list as they were, however
\* many replacement purchases lie inside the 30-day window.
C18_GainsNeverWashed ==
    [][ClosedWithoutLoss =>
          LET e == trace'[Len(trace')]
          IN  /\ realized_gains' =
                    [realized_gains EXCEPT
                        ![e.instrument] = RAdd(realized_gains[e.instrument],
                                               e.net_gain_loss)]
              /\ realized_losses' = realized_losses
              /\ disallowed_losses' = disallowed_losses
              /\ \A k \in DOMAIN pending_wash_sales \cup DOMAIN pending_wash_sales' :
                    Get(pending_wash_sales', k) = Get(pending_wash_sales, k)]_vars

\* a closing at break-even with replacement shares both held from the
\* trailing 30 days and bought in the following 30 days, then a closing at
\* a gain of 200 with replacement shares bought in the following 30 days
C18_Witness ==
    /\ Len(trace) >= 2
    /\ \E j \in 1..Len(trace) :
          /\ trace[j].kind = "close" /\ trace[j].net_gain_loss = Zero
          /\ trace[j].remaining_current_replacement > 0
          /\ trace[j].future_replacement > 0
          /\ trace[j].gains_after = trace[j].gains_before
          /\ trace[j].pending_after = trace[j].pending_before
    /\ Last.kind = "close" /\ Last.net_gain_loss = FromInt(200)
    /\ Last.replacement_qty > 0
    /\ Last.deferred_qty = 0
    /\ Last.gains_after = RAdd(Last.gains_before, FromInt(200))

----------------------------------------------------------------------------
(* C19 *)

\* quantity of the lots acquired 0 to 30 days before date
HeldFromLast30Days(lots, date) ==
    SumQty(SelectSeq(lots, LAMBDA lot : 0 <= date - lot.date /\ date - lot.date <= 30))

\* quantity of the buys of key dated 1 to 30 days after date
BoughtInNext30Days(key, date) ==
    SumQty(SelectSeq(transactions,
        LAMBDA t : /\ is_buy(t) /\ get_key(t) = key
                   /\ 1 <= t.date - date /\ t.date - date <= 30))

\* what min(b, remaining_qty) leaves of each deferral of P, in total
RECURSIVE SumLeftAfter(_, _)
SumLeftAfter(P, b) ==
    IF P = <<>> THEN 0
    ELSE (IF Head(P).remaining_qty > b THEN Head(P).remaining_qty - b ELSE 0)
         + SumLeftAfter(Tail(P), b)

\* a closing at a loss on day D counts the open lots acquired on D - 30 ..
\* D (not D - 31), a sell or option close counts the buys of its key dated
\* D + 1 .. D + 30 (not D + 31), and a deferral it registers expires on D + 30
LossWindow(e) ==
    (e.kind = "close" /\ e.net_gain_loss.n < 0) =>
        /\ e.current_holding_wash = HeldFromLast30Days(e.lots_before, e.date)
        /\ IsSellEntry(e) => e.future_replacement = BoughtInNext30Days(e.key, e.date)
        /\ e.deferred_qty > 0 =>
              e.pending_after[Len(e.pending_after)].expiration = e.date + 30

\* a buy absorbs from the deferrals of closings dated up to 30 days before
\* it, and leaves those of closings dated 31 days or more before it alone
BuyWindow(e) ==
    e.kind = "buy" =>
        LET old(p) == e.date - (p.expiration - 30) > 30
            young(p) == e.date - (p.expiration - 30) <= 30
        IN  /\ SelectSeq(e.pending_after, old) = SelectSeq(e.pending_before, old)
            /\ SumRemaining(SelectSeq(e.pending_after, young)) =
                  SumLeftAfter(SelectSeq(e.pending_before, young), e.quantity)

----------------------------------------------------------------------------
(* C20 *)

\* closing entry e asked for more than the open quantity of its key, which
\* was not zero
Oversold(e) ==
    /\ e.kind = "close"
    /\ 0 < SumQty(e.lots_before)
    /\ SumQty(e.lots_before) < e.quantity

\* C20: oversold position. A closing event whose quantity exceeds the open
\* quantity of its key (which is > 0) raises nothing, consumes every open
\* lot and leaves the queue empty, drops the unmatched remainder, takes its
\* cost basis from the consumed lots only and counts its proceeds in full;
\* the run goes on with the next transaction.
C20_OversoldPosition ==
    [][(Len(trace') = Len(trace) + 1 /\ Oversold(trace'[Len(trace')])) =>
          LET e == trace'[Len(trace')]
              i == e.instrument
          IN  /\ pc' = "loop" /\ idx' = idx + 1
              /\ Get(holdings', e.key) = <<>>
              /\ Len(e.breakdowns) = Len(e.lots_before)
              /\ \A j \in 1..Len(e.breakdowns) :
                    e.breakdowns[j].sell_qty = e.lots_before[j].quantity
              /\ e.cost_basis = SumLotCost(e.lots_before)
              /\ gross_cost_basis'[i] = RAdd(gross_cost_basis[i], e.cost_basis)
              /\ e.amount = FromInt(Abs(transactions[e.idx].amount.n))
              /\ gross_sales'[i] = RAdd(gross_sales[i], e.amount)
              /\ e.net_gain_loss = RSub(e.amount, e.cost_basis)]_vars

\* 15 sold for 60 against a single lot of 10 bought for 100: the queue is
\* empty, the cost basis is 100, the whole 60 is in gross_sales, and a later
\* transaction has been processed
C20_Witness ==
    /\ Len(trace) = 3
    /\ Oversold(trace[2])
    /\ trace[2].quantity = 15 /\ SumQty(trace[2].lots_before) = 10
    /\ trace[2].lots_after = <<>>
    /\ trace[2].cost_basis = FromInt(100)
    /\ trace[2].net_gain_loss = FromInt(-40)
    /\ gross_sales[trace[2].instrument] = FromInt(60)
    /\ trace[3].kind = "buy"

----------------------------------------------------------------------------
(* C21 *)

\* every lot of every queue has a quantity > 0 and total_cost = quantity x
\* price
LotsWellFormed ==
    \A k \in DOMAIN holdings : \A j \in 1..Len(holdings[k]) :
        LET lot == holdings[k][j]
        IN  /\ lot.quantity > 0
            /\ lot.total_cost.n * lot.price.d = lot.quantity * lot.price.n * lot.total_cost.d

\* queue new is queue old with one lot added at the tail
GrewByOne(old, new) ==
    /\ Len(new) = Len(old) + 1
    /\ SubSeq(new, 1, Len(old)) = old

\* queue new is queue old without its first n lots, the next lot possibly
\* with less quantity, every remaining lot with its price and date
ShrankFromHead(old, new) ==
    \E n \in 0..Len(old) :
        /\ Len(new) = Len(old) - n
        /\ \A j \in 1..Len(new) :
              /\ new[j].price = old[n + j].price
              /\ new[j].date = old[n + j].date
              /\ new[j].quantity <= old[n + j].quantity
              /\ j > 1 => new[j] = old[n + j]

\* within one call, a step changes a queue by adding a lot or by consuming
\* from its head
LotsKeepPrice ==
    earlier' = earlier =>
        \A k \in DOMAIN holdings \cup DOMAIN holdings' :
            \/ GrewByOne(Get(holdings, k), Get(holdings', k))
            \/ ShrankFromHead(Get(holdings, k), Get(holdings', k))

\* C21: lot queue invariant. After every processed event every lot of every
\* key's queue has quantity > 0 and total_cost = quantity x price; a lot's
\* price never changes after creation; a lot that is consumed whole is
\* removed from the queue, not left with quantity 0.
C21_LotQueueInvariant == []LotsWellFormed /\ [][LotsKeepPrice]_vars

\* a closing of 15 took a lot of 10 whole and 5 of a lot of 10 bought for
\* 200: one lot is left, 5 at the price of 20, total cost 100
C21_Witness ==
    /\ HasLast /\ Last.kind = "close" /\ Last.quantity = 15
    /\ Len(Last.lots_before) = 2
    /\ Last.lots_before[1].quantity = 10 /\ Last.lots_before[2].quantity = 10
    /\ Len(Get(holdings, Last.key)) = 1
    /\ holdings[Last.key][1].quantity = 5
    /\ holdings[Last.key][1].price = Last.lots_before[2].price
    /\ holdings[Last.key][1].price = FromInt(20)
    /\ holdings[Last.key][1].total_cost = FromInt(100)

----------------------------------------------------------------------------
(* C22 *)

\* a <= b on exact amounts
AtMost(a, b) == a.n * b.d <= b.n * a.d

\* what closing entry e added to disallowed_losses is at most the magnitude
\* of its net loss (nothing, when it closed without a loss)
DisallowedWithinLoss(e) ==
    e.kind = "close" =>
        AtMost(RSub(e.disallowed_after, e.disallowed_before),
               IF e.net_gain_loss.n < 0 THEN RNeg(e.net_gain_loss) ELSE Zero)

\* C22: accumulator signs. After any sequence of events, for every
\* instrument realized_gains >= 0, realized_losses <= 0 and
\* disallowed_losses >= 0, and what a single closing adds to
\* disallowed_losses never exceeds the magnitude of that closing's net loss.
C22_AccumulatorSigns ==
    /\ \A i \in Instruments :
          /\ realized_gains[i].n >= 0
          /\ realized_losses[i].n <= 0
          /\ disallowed_losses[i].n >= 0
    /\ \A j \in 1..Len(trace) : DisallowedWithinLoss(trace[j])

\* one instrument with a realized gain, a realized loss and a disallowed
\* loss, after a closing at a loss that deferred part of it and realized
\* the rest
C22_Witness ==
    /\ \E i \in Instruments :
          /\ realized_gains[i].n > 0
          /\ realized_losses[i].n < 0
          /\ disallowed_losses[i].n > 0
    /\ \E j \in 1..Len(trace) :
          /\ PartiallyReplaced(trace[j])
          /\ trace[j].disallowed_after # trace[j].disallowed_before
          /\ trace[j].losses_after # trace[j].losses_before

----------------------------------------------------------------------------
(* C23 *)

\* C23: accounting identity. After any sequence of events, for every
\* instrument, realized_gains + realized_losses - disallowed_losses =
\* gross_sales - gross_cost_basis: the net gain or loss of every closing is
\* split without remainder between the realized and the deferred
\* accumulators.
C23_AccountingIdentity ==
    \A i \in Instruments :
        RSub(RAdd(realized_gains[i], realized_losses[i]), disallowed_losses[i])
            = RSub(gross_sales[i], gross_cost_basis[i])

\* an option close whose loss of 40 was deferred whole and an equity sale
\* at a gain of 60, both booked on the same instrument: 60 + 0 - 40 =
\* 120 - 100
C23_Witness ==
    /\ Len(trace) >= 2
    /\ \E j, k \in 1..Len(trace) :
          /\ trace[j].kind = "close" /\ trace[j].key[2].isstr
          /\ trace[j].net_gain_loss = FromInt(-40)
          /\ trace[j].deferred_qty = trace[j].quantity
          /\ trace[k].kind = "close" /\ ~trace[k].key[2].isstr
          /\ trace[k].net_gain_loss = FromInt(60)
          /\ trace[j].instrument = trace[k].instrument
          /\ disallowed_losses[trace[j].instrument] = FromInt(40)
          /\ realized_gains[trace[j].instrument] = FromInt(60)
          /\ realized_losses[trace[j].instrument] = Zero
          /\ gross_sales[trace[j].instrument] = FromInt(120)
          /\ gross_cost_basis[trace[j].instrument] = FromInt(100)

----------------------------------------------------------------------------
(* C24 *)

\* C24: the long/short-term split is exhaustive. After any sequence of
\* events, closings that exceed the open quantity included, for every
\* instrument long_term_gain + short_term_gain = gross_sales -
\* gross_cost_basis, gross_long_term_sales + gross_short_term_sales =
\* gross_sales and gross_long_term_cost_basis + gross_short_term_cost_basis
\* = gross_cost_basis.
C24_TermSplitExhaustive ==
    \A i \in Instruments :
        /\ RAdd(long_term_gain[i], short_term_gain[i])
              = RSub(gross_sales[i], gross_cost_basis[i])
        /\ RAdd(gross_long_term_sales[i], gross_short_term_sales[i]) = gross_sales[i]
        /\ RAdd(gross_long_term_cost_basis[i], gross_short_term_cost_basis[i])
              = gross_cost_basis[i]

----------------------------------------------------------------------------
(* C25 *)

\* the keys the call has touched so far
KeysSeen == DOMAIN pending_wash_sales \cup {trace[j].key : j \in 1..Len(trace)}

\* what the closings of the key registered as disallowed:
\* deferred_qty * loss_per_share of each
RECURSIVE RegisteredFor(_, _)
RegisteredFor(key, j) ==
    IF j = 0 THEN Zero
    ELSE RAdd(RegisteredFor(key, j - 1),
              IF trace[j].kind = "close" /\ trace[j].key = key
              THEN RMulInt(trace[j].loss_per_share, trace[j].deferred_qty)
              ELSE Zero)

\* the adjustments added to the cost of the key's buys
RECURSIVE BakedFor(_, _)
BakedFor(key, j) ==
    IF j = 0 THEN Zero
    ELSE RAdd(BakedFor(key, j - 1),
              IF trace[j].kind = "buy" /\ trace[j].key = key
              THEN trace[j].adjustment ELSE Zero)

\* remaining_qty * loss_per_share over a pending list
RECURSIVE StillPending(_)
StillPending(P) ==
    IF P = <<>> THEN Zero
    ELSE RAdd(RMulInt(Head(P).loss_per_share, Head(P).remaining_qty),
              StillPending(Tail(P)))

\* C25: conservation of deferred loss. After any sequence of events, for
\* every key, the total ever registered as disallowed for the key equals
\* the sum of the wash-sale adjustments baked into the key's buys plus the
\* sum over the key's pending deferrals of remaining_qty * loss_per_share;
\* no pending deferral has remaining_qty < 0 and none with remaining_qty = 0
\* stays in the list.
C25_DeferredLossConserved ==
    \A key \in KeysSeen :
        LET P == Get(pending_wash_sales, key)
        IN  /\ RegisteredFor(key, Len(trace))
                  = RAdd(BakedFor(key, Len(trace)), StillPending(P))
            /\ \A n \in 1..Len(P) : P[n].remaining_qty > 0

\* a key with part of its deferred loss baked into a buy, part of the same
\* deferral still pending, and the ledger at its end
C25_Witness ==
    /\ pc = "done"
    /\ \E key \in KeysSeen :
          LET P == Get(pending_wash_sales, key)
          IN  /\ P # <<>>
              /\ \E j \in 1..Len(trace) :
                    /\ trace[j].kind = "buy" /\ trace[j].key = key
                    /\ trace[j].adjustment.n > 0
                    /\ trace[j].pending_before # <<>>
                    /\ trace[j].pending_after # <<>>
                    /\ trace[j].pending_after[1].remaining_qty
                          < trace[j].pending_before[1].remaining_qty

====
